---- MODULE Spec2Model ----
(***************************************************************************)
(* Model of the container generated by the dynbox! macro (src/src/lib.rs). *)
(*                                                                         *)
(* The container is a byte buffer `store` of SIZE bytes plus the word      *)
(* `vtable`, which is 0 when the container is empty and otherwise the      *)
(* address of the occupant's dispatch table.  The occupant is only ever    *)
(* reached through the fat pointer (address of store, vtable) that         *)
(* get_ptr_mut builds, so the model keeps the bytes and lets dispatch and  *)
(* cleanup read them back.                                                 *)
(*                                                                         *)
(* Implementors of the trait that are stored: the three types of the test  *)
(* module (A, B, Droppable), Bomb, a type laid out like Droppable whose    *)
(* Drop records the call in its cell and then panics, and Wide, a          *)
(* #[repr(align(32))] type of 32 bytes.                                    *)
(*                                                                         *)
(* The container is #[repr(align(16))] and the offset of store in it is    *)
(* the compiler's choice, so the address of store is some multiple of 8.   *)
(* Copying a value to, or making a reference from, an address that is not  *)
(* a multiple of the type's alignment is undefined behaviour: the call     *)
(* either goes on as if the address were aligned or ends the process.      *)
(***************************************************************************)
EXTENDS Integers, Sequences, FiniteSets, TLC

VARIABLES SIZE, base, store, vtable, status, drops, nextCell, stored, nops, last, held

vars == <<SIZE, base, store, vtable, status, drops, nextCell, stored, nops, last, held>>

----------------------------------------------------------------------------
(* Bounds of the model *)

\* largest const parameter SIZE explored
MaxSize == 32
\* number of Cell<..> locals the caller creates (one per Droppable / Bomb)
MaxCells == 2
\* number of calls made on one container
MaxOps == 4

Sizes == 0..MaxSize

\* the addresses of store modulo 32: the container is aligned to 16 and the
\* fields of the struct are laid out at multiples of 8
Bases == {0, 8, 16, 24}
Cells == 1..MaxCells

----------------------------------------------------------------------------
(* Values and their representation in memory *)

\* little-endian representation of n in k bytes
RECURSIVE to_le_bytes(_, _)
to_le_bytes(n, k) == IF k = 0 THEN <<>> ELSE <<n % 256>> \o to_le_bytes(n \div 256, k - 1)

\* value of the (at most four) bytes of s as a little-endian integer
RECURSIVE from_le_bytes(_)
from_le_bytes(s) == IF s = <<>> THEN 0 ELSE Head(s) + 256 * from_le_bytes(Tail(s))

\* address of the caller's i-th Cell local
CellAddr(i) == 4096 + 8 * i

TypeNames == {"A", "B", "Droppable", "Bomb", "Wide"}

\* core::mem::size_of::<T>()
size_of(T) ==
  CASE T = "A" -> 0
    [] T = "B" -> 16
    [] T = "Droppable" -> 8
    [] T = "Bomb" -> 8
    [] T = "Wide" -> 32

\* core::mem::align_of::<T>(), which set does not look at
align_of(T) ==
  CASE T = "A" -> 1
    [] T = "B" -> 16
    [] T = "Droppable" -> 8
    [] T = "Bomb" -> 8
    [] T = "Wide" -> 32

\* address of T's dispatch table for the trait (second word of *const dyn Trait)
vtable_of(T) ==
  CASE T = "A" -> 1000
    [] T = "B" -> 2000
    [] T = "Droppable" -> 3000
    [] T = "Bomb" -> 4000
    [] T = "Wide" -> 5000

\* the u128 payloads of B that are stored, as [hi, lo]: hi * 2^32 + lo
BPayloads == {[hi |-> 0, lo |-> 42], [hi |-> 1, lo |-> 513]}

\* the values of the types, as the bytes of their representation
ValueA == [type |-> "A", bytes |-> <<>>, cell |-> 0]
ValueB(p) == [type |-> "B", bytes |-> to_le_bytes(p.lo, 4) \o to_le_bytes(p.hi, 12), cell |-> 0]
ValueDroppable(c) == [type |-> "Droppable", bytes |-> to_le_bytes(CellAddr(c), 8), cell |-> c]
ValueWide == [type |-> "Wide", bytes |-> to_le_bytes(7, 32), cell |-> 0]
ValueBomb(c) == [type |-> "Bomb", bytes |-> to_le_bytes(CellAddr(c), 8), cell |-> c]

\* the cell a stored reference points to (0: the bytes are no cell's address)
CellAt(bytes) ==
  IF \E c \in Cells : to_le_bytes(CellAddr(c), 8) = bytes
  THEN CHOOSE c \in Cells : to_le_bytes(CellAddr(c), 8) = bytes
  ELSE 0

\* the first n bytes found at a pointer into a buffer (zero beyond its end)
Read(data, n) == [i \in 1..n |-> IF i <= Len(data) THEN data[i] ELSE 0]

----------------------------------------------------------------------------
(* Cleanup and dispatch through a fat pointer [data, vtable] *)

Event(kind, vt, c) == [kind |-> kind, vtable |-> vt, cell |-> c]

\* <T as MyTrait>::foo, called through the dispatch table of the pointer
foo(ptr) ==
  CASE ptr.vtable = vtable_of("A") -> 1
    [] ptr.vtable = vtable_of("B") -> from_le_bytes(Read(ptr.data, 4))
    [] ptr.vtable = vtable_of("Droppable") -> 2
    [] ptr.vtable = vtable_of("Bomb") -> 3
    [] ptr.vtable = vtable_of("Wide") -> 4
    [] OTHER -> 0

\* core::ptr::drop_in_place(ptr): the drop glue of the pointer's dispatch
\* table, run on the bytes it points to; d counts the Drop::drop calls per cell
drop_in_place(ptr, d) ==
  LET c == CellAt(Read(ptr.data, 8))
      hasDrop == ptr.vtable \in {vtable_of("Droppable"), vtable_of("Bomb")}
  IN  [drops  |-> IF hasDrop /\ c \in DOMAIN d THEN [d EXCEPT ![c] = @ + 1] ELSE d,
       panic  |-> ptr.vtable = vtable_of("Bomb"),
       cell   |-> IF hasDrop THEN c ELSE 0]

----------------------------------------------------------------------------
(* The methods of the container; self is [store, vtable] *)

None == <<>>
Some(x) == <<x>>

\* new with the tag initialised from the wrong field
new_tag_from_size(size) == [store |-> [i \in 1..size |-> 0], vtable |-> size]

new(size) == [store |-> [i \in 1..size |-> 0], vtable |-> 0]

empty(self) == self.vtable = 0

get_ptr_mut(self) == [data |-> self.store, vtable |-> self.vtable]

\* get without the test of the tag
get_unchecked(self) == Some(get_ptr_mut(self))

get(self) == IF self.vtable = 0 THEN None ELSE Some(get_ptr_mut(self))

get_mut(self) == IF self.vtable = 0 THEN None ELSE Some(get_ptr_mut(self))

\* the outcome of a method that ran to its end without touching anything
Untouched(self, d) ==
  [self |-> self, drops |-> d, panic |-> FALSE, abort |-> FALSE, events |-> <<>>]

\* clear without the test of the tag: drop_in_place runs on an empty container
clear_unguarded(self, d) ==
  LET r == drop_in_place(get_ptr_mut(self), d)
  IN  [self   |-> IF r.panic THEN self ELSE [self EXCEPT !.vtable = 0],
       drops  |-> r.drops,
       panic  |-> r.panic,
       abort  |-> FALSE,
       events |-> <<Event("drop", self.vtable, r.cell)>>]

\* clear that runs drop_in_place and leaves the tag as it was
clear_keeps_tag(self, d) ==
  IF self.vtable # 0
  THEN LET r == drop_in_place(get_ptr_mut(self), d)
       IN  [self   |-> self,
            drops  |-> r.drops,
            panic  |-> r.panic,
            abort  |-> FALSE,
            events |-> <<Event("drop", self.vtable, r.cell)>>]
  ELSE Untouched(self, d)

\* clear that resets the tag without running drop_in_place
clear_no_drop(self, d) ==
  IF self.vtable # 0
  THEN [self |-> [self EXCEPT !.vtable = 0], drops |-> d, panic |-> FALSE,
        abort |-> FALSE, events |-> <<>>]
  ELSE Untouched(self, d)

clear(self, d) ==
  IF self.vtable # 0
  THEN LET r == drop_in_place(get_ptr_mut(self), d)
       IN  [self   |-> IF r.panic THEN self ELSE [self EXCEPT !.vtable = 0],
            drops  |-> r.drops,
            panic  |-> r.panic,
            abort  |-> FALSE,
            events |-> <<Event("drop", self.vtable, r.cell)>>]
  ELSE Untouched(self, d)

\* copy_to in place of copy_from: the buffer is the source, not the target
copy_to(dst, src, n) == dst

\* ptr::copy_from: count values of n bytes each from src to the start of dst
copy_from(dst, src, n) ==
  [i \in 1..Len(dst) |-> IF i <= n /\ i <= Len(src) THEN src[i] ELSE dst[i]]

\* content forgotten before the panic: unwinding has nothing to drop
Unwind_leaks(self, d, content, events) ==
  [self |-> self, drops |-> d, panic |-> TRUE, abort |-> FALSE, events |-> events]

\* a panic leaves set while it still owns content: unwinding drops content,
\* and a second panic from that drop aborts the process
Unwind(self, d, content, events) ==
  LET r == drop_in_place([data |-> content.bytes, vtable |-> vtable_of(content.type)], d)
  IN  [self   |-> self,
       drops  |-> r.drops,
       panic  |-> TRUE,
       abort  |-> r.panic,
       events |-> events \o <<Event("unwind", vtable_of(content.type), r.cell)>>]

\* the assertion left out
assert_size_off(size, cap) == TRUE

\* the assertion with < for <=
assert_size_strict(size, cap) == size < cap

\* assert!(size <= SIZE)
assert_size(size, cap) == size <= cap

\* content left to go out of scope at the end of set: its Drop runs
forget_missing(content, d) ==
  drop_in_place([data |-> content.bytes, vtable |-> vtable_of(content.type)], d).drops

\* core::mem::forget(content): content goes out of scope without its Drop
forget(content, d) == d

\* set that asserts the size before it clears the container
set_assert_first(self, d, content) ==
  LET size == size_of(content.type)
      parts == <<content.bytes, vtable_of(content.type)>>
  IN  IF ~assert_size(size, Len(self.store))
      THEN Unwind(self, d, content, <<Event("assert", 0, 0)>>)
      ELSE LET c == IF ~empty(self) THEN clear(self, d) ELSE Untouched(self, d)
           IN  IF c.panic
               THEN Unwind(c.self, c.drops, content, c.events)
               ELSE [self   |-> [store  |-> copy_from(c.self.store, parts[1], size),
                                 vtable |-> parts[2]],
                     drops  |-> forget(content, c.drops),
                     panic  |-> FALSE,
                     abort  |-> FALSE,
                     events |-> c.events \o <<Event("store", parts[2], content.cell)>>]

set(self, d, content) ==
  LET c    == IF ~empty(self) THEN clear(self, d) ELSE Untouched(self, d)
      size == size_of(content.type)
      parts == <<content.bytes, vtable_of(content.type)>>
  IN  IF c.panic
      THEN Unwind(c.self, c.drops, content, c.events)
      ELSE IF ~assert_size(size, Len(self.store))
      THEN Unwind(c.self, c.drops, content, c.events \o <<Event("assert", 0, 0)>>)
      ELSE [self   |-> [store  |-> copy_from(c.self.store, parts[1], size),
                        vtable |-> parts[2]],
            drops  |-> forget(content, c.drops),
            panic  |-> FALSE,
            abort  |-> FALSE,
            events |-> c.events \o <<Event("store", parts[2], content.cell)>>]

\* Drop::drop of the container
drop(self, d) == clear(self, d)

----------------------------------------------------------------------------
(* The state machine: one container and the calls made on it *)

Self == [store |-> store, vtable |-> vtable]

\* the record of the last call: its name, its argument, how it ended, what
\* it returned and what it did
NoArg == [type |-> "-", bytes |-> <<>>, cell |-> 0]
Call(op, arg, panic, ret, events) ==
  [op |-> op, arg |-> arg, panic |-> panic, ret |-> ret, events |-> events]

\* the value the container owns whose cleanup has not begun, after the
\* events of a call: drop_in_place ends the life of the one it is run on,
\* the store of content begins the container's ownership of content
RECURSIVE HeldAfter(_, _, _)
HeldAfter(h, events, content) ==
  IF events = <<>> THEN h
  ELSE HeldAfter(CASE Head(events).kind = "drop" -> NoArg
                   [] Head(events).kind = "store" -> content
                   [] OTHER -> h,
                 Tail(events), content)

Init ==
  /\ SIZE \in Sizes
  /\ base \in Bases
  /\ store = new(SIZE).store
  /\ vtable = new(SIZE).vtable
  /\ status = "live"
  /\ drops = [c \in Cells |-> 0]
  /\ nextCell = 0
  /\ stored = {}
  /\ nops = 0
  /\ last = Call("new", NoArg, FALSE, None, <<>>)
  /\ held = NoArg

\* the values a caller can pass next: a Droppable or Bomb borrows a fresh cell
Contents ==
  {ValueA, ValueWide} \cup {ValueB(p) : p \in BPayloads}
    \cup (IF nextCell < MaxCells
          THEN {ValueDroppable(nextCell + 1), ValueBomb(nextCell + 1)}
          ELSE {})

Ready == status = "live" /\ nops < MaxOps

Apply(r) ==
  /\ store' = r.self.store
  /\ vtable' = r.self.vtable
  /\ drops' = r.drops
  /\ nops' = nops + 1

Set ==
  /\ Ready
  /\ \E content \in Contents :
       LET r == set(Self, drops, content)
       IN  /\ Apply(r)
           /\ status' = IF r.abort THEN "aborted" ELSE "live"
           /\ nextCell' = IF content.cell # 0 THEN nextCell + 1 ELSE nextCell
           /\ stored' = IF ~r.panic /\ content.cell # 0
                         THEN stored \cup {content.cell} ELSE stored
           /\ last' = Call("set", content, r.panic, None, r.events)
           /\ held' = HeldAfter(held, r.events, content)
  /\ UNCHANGED <<SIZE, base>>

Clear ==
  /\ Ready
  /\ LET r == clear(Self, drops)
     IN  /\ Apply(r)
         /\ last' = Call("clear", NoArg, r.panic, None, r.events)
         /\ held' = HeldAfter(held, r.events, NoArg)
  /\ UNCHANGED <<SIZE, base, status, nextCell, stored>>

Empty ==
  /\ Ready
  /\ nops' = nops + 1
  /\ last' = Call("empty", NoArg, FALSE, Some(IF empty(Self) THEN 1 ELSE 0), <<>>)
  /\ UNCHANGED <<SIZE, base, store, vtable, status, drops, nextCell, stored, held>>

\* get that takes the occupant out, as Option::take does: the tag is reset
GetTakes ==
  /\ Ready
  /\ nops' = nops + 1
  /\ LET r == get(Self)
     IN  last' = Call("get", NoArg, FALSE, IF r = None THEN None ELSE Some(foo(r[1])), <<>>)
  /\ vtable' = 0
  /\ UNCHANGED <<SIZE, base, store, status, drops, nextCell, stored, held>>

\* the call and a call of foo on the reference returned
Get ==
  /\ Ready
  /\ nops' = nops + 1
  /\ LET r == get(Self)
     IN  last' = Call("get", NoArg, FALSE, IF r = None THEN None ELSE Some(foo(r[1])), <<>>)
  /\ UNCHANGED <<SIZE, base, store, vtable, status, drops, nextCell, stored, held>>

GetMut ==
  /\ Ready
  /\ nops' = nops + 1
  /\ LET r == get_mut(Self)
     IN  last' = Call("get_mut", NoArg, FALSE, IF r = None THEN None ELSE Some(foo(r[1])), <<>>)
  /\ UNCHANGED <<SIZE, base, store, vtable, status, drops, nextCell, stored, held>>

\* the container goes out of scope; whether or not its cleanup panics, it is gone
Drop ==
  /\ status = "live"
  /\ LET r == drop(Self, drops)
     IN  /\ store' = r.self.store
         /\ vtable' = r.self.vtable
         /\ drops' = r.drops
         /\ last' = Call("drop", NoArg, r.panic, None, r.events)
         /\ held' = HeldAfter(held, r.events, NoArg)
  /\ status' = "dropped"
  /\ UNCHANGED <<SIZE, base, nextCell, stored, nops>>

\* the address of store is not a multiple of T's alignment
Misaligned(T) == base % align_of(T) # 0

\* the type of the occupant the tag names
TypeOfTag == CHOOSE T \in TypeNames : vtable_of(T) = vtable

\* a set that passed the assertion faults in copy_from, the target being
\* misaligned for T: the previous occupant has been cleared, the tag written,
\* the bytes not, and the process ends
SetFault ==
  /\ Ready
  /\ \E content \in Contents :
       LET r == set(Self, drops, content)
       IN  /\ ~r.panic
           /\ Misaligned(content.type)
           /\ vtable' = r.self.vtable
           /\ drops' = r.drops
           /\ nextCell' = IF content.cell # 0 THEN nextCell + 1 ELSE nextCell
           /\ last' = Call("fault", content, FALSE, None, SubSeq(r.events, 1, Len(r.events) - 1))
           /\ held' = HeldAfter(held, SubSeq(r.events, 1, Len(r.events) - 1), content)
  /\ nops' = nops + 1
  /\ status' = "aborted"
  /\ UNCHANGED <<SIZE, base, store, stored>>

\* a get or get_mut faults making the reference, store being misaligned for
\* the type of the occupant: the process ends
DerefFault ==
  /\ Ready
  /\ vtable # 0
  /\ Misaligned(TypeOfTag)
  /\ nops' = nops + 1
  /\ last' = Call("fault", NoArg, FALSE, None, <<>>)
  /\ status' = "aborted"
  /\ UNCHANGED <<SIZE, base, store, vtable, drops, nextCell, stored, held>>

Next == Set \/ Clear \/ Empty \/ Get \/ GetMut \/ Drop \/ SetFault \/ DerefFault

Spec == Init /\ [][Next]_vars

----------------------------------------------------------------------------
(* Properties *)

\* the value passed to the last set, called directly
Direct(content) == [data |-> content.bytes, vtable |-> vtable_of(content.type)]

\* the cell of the occupant the tag and the bytes describe (0: it has none)
OccupantCell == drop_in_place(get_ptr_mut(Self), drops).cell

Kinds(events) == [i \in DOMAIN events |-> events[i].kind]

\* C1: over any sequence of calls, a value that set stored never has its
\* cleanup run more than once, and once the container has been dropped every
\* such value has had its cleanup run exactly once.
C1_StoredValueDroppedExactlyOnce ==
  /\ \A c \in stored : drops[c] <= 1
  /\ status = "dropped" => \A c \in stored : drops[c] = 1

\* C2: a set of a value whose size is at most SIZE (equal included) fails only
\* when the cleanup of the previous occupant panicked; when it returns, empty()
\* is false and get() and get_mut() return a reference on which foo gives what
\* it gives on the value passed.
C2_SetFittingValueIsDispatched ==
  (last.op = "set" /\ size_of(last.arg.type) <= SIZE) =>
    /\ last.panic => Kinds(last.events) = <<"drop", "unwind">>
    /\ ~last.panic =>
         /\ ~empty(Self)
         /\ get(Self) # None
         /\ get_mut(Self) # None
         /\ foo(get(Self)[1]) = foo(Direct(last.arg))
         /\ foo(get_mut(Self)[1]) = foo(Direct(last.arg))

\* a B of exactly SIZE bytes has replaced an earlier occupant
C2_Witness ==
  /\ last.op = "set" /\ ~last.panic
  /\ last.arg.type = "B" /\ size_of("B") = SIZE
  /\ Kinds(last.events) = <<"drop", "store">>
  /\ foo(get(Self)[1]) = 513

\* C3: a set of a value larger than SIZE always panics, leaves the bytes of
\* the storage as they were and never makes the tag that of the value's type;
\* the tag is only ever that of a type that fits.
C3_OversizedSetPanics ==
  [][/\ (last'.op = "set" /\ size_of(last'.arg.type) > SIZE) =>
         /\ last'.panic
         /\ store' = store
         /\ vtable' # vtable_of(last'.arg.type)
         /\ "store" \notin {last'.events[i].kind : i \in DOMAIN last'.events}
     /\ vtable' # 0 => \E T \in TypeNames : vtable' = vtable_of(T) /\ size_of(T) <= SIZE
    ]_vars

\* an oversized B was rejected by a container that held a value
C3_Witness ==
  /\ last.op = "set" /\ size_of(last.arg.type) > SIZE /\ last.panic
  /\ Kinds(last.events) = <<"drop", "assert", "unwind">>

\* the number of values the container holds after the first i of the events
\* of a call that began with the tag vt
Occupancy(vt, events, i) ==
  (IF vt # 0 THEN 1 ELSE 0)
    - Cardinality({j \in 1..i : events[j].kind = "drop"})
    + Cardinality({j \in 1..i : events[j].kind = "store"})

\* C4: a set of a value larger than SIZE changes nothing of the container,
\* empty or occupied: the tag, the bytes and the cleanup count of every value
\* other than the rejected one are after the call what they were before it.
C4_RejectedSetChangesNothing ==
  [][(last'.op = "set" /\ size_of(last'.arg.type) > SIZE) =>
       /\ vtable' = vtable
       /\ store' = store
       /\ \A c \in Cells \ {last'.arg.cell} : drops'[c] = drops[c]
    ]_vars

\* C5: a set on a container whose tag is set runs drop_in_place on the
\* occupant exactly once, as the first thing it does and so before the new
\* value is stored; the container never holds two values; when set returns the
\* tag is that of the new value.
C5_SetDropsPreviousOccupantFirst ==
  [][(last'.op = "set" /\ vtable # 0) =>
       LET ev == last'.events
       IN  /\ Len(ev) >= 1
           /\ ev[1] = Event("drop", vtable, OccupantCell)
           /\ \A i \in 2..Len(ev) : ev[i].kind # "drop"
           /\ OccupantCell # 0 => drops'[OccupantCell] = drops[OccupantCell] + 1
           /\ \A i \in DOMAIN ev : Occupancy(vtable, ev, i) \in {0, 1}
           /\ ~last'.panic =>
                /\ ev[Len(ev)] = Event("store", vtable', last'.arg.cell)
                /\ vtable' = vtable_of(last'.arg.type)
    ]_vars

\* a set has replaced a Droppable, whose cleanup has run once
C5_Witness ==
  /\ last.op = "set" /\ ~last.panic
  /\ Kinds(last.events) = <<"drop", "store">>
  /\ last.events[1].vtable = vtable_of("Droppable")
  /\ drops[last.events[1].cell] = 1

\* C6: clear() on a container whose tag is set runs drop_in_place on the
\* occupant exactly once, and when it returns empty() is true and get() and
\* get_mut() are None.
C6_ClearEmptiesOccupied ==
  [][(last'.op = "clear" /\ vtable # 0) =>
       /\ last'.events = <<Event("drop", vtable, OccupantCell)>>
       /\ OccupantCell # 0 => drops'[OccupantCell] = drops[OccupantCell] + 1
       /\ ~last'.panic =>
            /\ empty(Self')
            /\ get(Self') = None
            /\ get_mut(Self') = None
    ]_vars

\* a clear() has run the cleanup of a Droppable and left the container empty
C6_Witness ==
  /\ last.op = "clear" /\ ~last.panic
  /\ Len(last.events) = 1
  /\ last.events[1].vtable = vtable_of("Droppable")
  /\ drops[last.events[1].cell] = 1
  /\ vtable = 0

\* C7: clear() on an empty container runs no cleanup and changes nothing, so
\* a clear() that follows a clear() that returned leaves the container and the
\* cleanup counts as the first one left them.
C7_ClearIdempotent ==
  [][/\ (last'.op = "clear" /\ empty(Self)) =>
         /\ last'.events = <<>> /\ ~last'.panic
         /\ store' = store /\ vtable' = vtable /\ drops' = drops
     /\ (last'.op = "clear" /\ last.op = "clear" /\ ~last.panic) =>
         /\ last'.events = <<>> /\ ~last'.panic
         /\ store' = store /\ vtable' = vtable /\ drops' = drops
    ]_vars

\* set, clear(), clear() on a container every type fits: the second clear()
\* found the container empty and the Droppable cleaned up once
C7_Witness ==
  /\ last.op = "clear" /\ last.events = <<>> /\ ~last.panic
  /\ vtable = 0
  /\ \A T \in TypeNames : size_of(T) <= SIZE
  /\ nops = 3 /\ nextCell = 1 /\ stored = {1} /\ drops[1] = 1

\* C8: a set that returns has not run the cleanup of the value it stored, and
\* the cleanup count of a stored value leaves zero only in a clear(), a set()
\* of another value (one that ends in a fault included) or the drop of the
\* container, while it is the occupant.
C8_SetTransfersOwnership ==
  [][/\ (last'.op = "set" /\ ~last'.panic /\ last'.arg.cell # 0) =>
         /\ drops'[last'.arg.cell] = 0
         /\ \A i \in DOMAIN last'.events :
              last'.events[i].cell = last'.arg.cell => last'.events[i].kind = "store"
     /\ \A c \in stored :
         (drops[c] = 0 /\ drops'[c] # 0) =>
           /\ last'.op \in {"clear", "set", "drop", "fault"}
           /\ vtable # 0 /\ OccupantCell = c
           /\ last'.arg.cell # c
    ]_vars

\* a stored Droppable is still the occupant after a query, its cleanup not run
C8_Witness ==
  /\ last.op \in {"get", "get_mut", "empty"}
  /\ vtable = vtable_of("Droppable")
  /\ OccupantCell \in stored
  /\ drops[OccupantCell] = 0

\* C9: the container new() returns is empty, for every SIZE: empty() is true,
\* get() and get_mut() are None, and its storage has SIZE bytes.
C9_NewIsEmpty ==
  last.op = "new" =>
    /\ empty(Self)
    /\ get(Self) = None
    /\ get_mut(Self) = None
    /\ Len(store) = SIZE

\* a new container with a storage of at least one byte
C9_Witness == last.op = "new" /\ SIZE > 0 /\ nops = 0

\* C10: a set of the zero-size A never fails the size assertion, whatever
\* SIZE is (0 included); it panics only when the cleanup of the previous
\* occupant did, and when it returns the container is not empty, differs from
\* a new one, and get() and get_mut() dispatch to A's foo.
C10_ZeroSizedIsStored ==
  (last.op = "set" /\ last.arg.type = "A") =>
    /\ size_of("A") = 0
    /\ \A i \in DOMAIN last.events : last.events[i].kind # "assert"
    /\ last.panic => Kinds(last.events) = <<"drop", "unwind">>
    /\ ~last.panic =>
         /\ ~empty(Self)
         /\ Self # new(SIZE)
         /\ get(Self) # None /\ foo(get(Self)[1]) = 1
         /\ get_mut(Self) # None /\ foo(get_mut(Self)[1]) = 1

\* an A is the occupant of a container of SIZE 0
C10_Witness ==
  /\ last.op = "set" /\ last.arg.type = "A" /\ ~last.panic
  /\ SIZE = 0 /\ store = <<>> /\ vtable = vtable_of("A")

\* C11: while the container exists, after any calls (rejected ones included),
\* the tag is 0 exactly when the container holds no live value, and a tag other
\* than 0 is that of the type of the one live value whose bytes the storage
\* holds.
C11_TagIffLiveValue ==
  status = "live" =>
    /\ vtable = 0 <=> held = NoArg
    /\ vtable # 0 =>
         /\ vtable = vtable_of(held.type)
         /\ Read(store, size_of(held.type)) = held.bytes

\* C12: a container whose tag is set holds a value whose cleanup has not been
\* started, also after a call that ended in a panic, and clear() and the drop
\* of the container run cleanup only on such a value.
C12_NoPartiallyDestroyedOccupant ==
  [][/\ (status' = "live" /\ vtable' # 0) => held' # NoArg
     /\ (last'.op \in {"clear", "drop"} /\ last'.events # <<>>) => held # NoArg
    ]_vars

\* C13: in a call the process survives, the tag goes from 0 to set only in a
\* set that returns, and from set to 0 only in a clear() or the drop of the
\* container; no get, get_mut, empty or panicking set empties an occupied
\* container.
C13_LifecycleTransitions ==
  [][status' # "aborted" =>
       /\ (vtable = 0 /\ vtable' # 0) => (last'.op = "set" /\ ~last'.panic)
       /\ (vtable # 0 /\ vtable' = 0) => last'.op \in {"clear", "drop"}
    ]_vars

Queries == {"empty", "get", "get_mut"}

\* C14: empty(), get() and get_mut() leave the tag, the bytes, the cleanup
\* counts and the value held as they were, and a query repeated right after
\* itself returns what it returned before.
C14_QueriesArePure ==
  [][last'.op \in Queries =>
       /\ store' = store /\ vtable' = vtable /\ drops' = drops /\ held' = held
       /\ last.op = last'.op => last'.ret = last.ret
    ]_vars

\* a get() on a container holding B(2^32 + 513), after at least two calls
C14_Witness ==
  /\ last.op = "get" /\ last.ret = Some(513)
  /\ held.type = "B" /\ vtable = vtable_of("B")
  /\ nops >= 3

\* C15: in every state get() is None exactly when empty() is true, and so is
\* get_mut(); the results the calls returned agree with the other observers.
C15_ObserversAgree ==
  /\ get(Self) = None <=> empty(Self)
  /\ get_mut(Self) = None <=> empty(Self)
  /\ last.op \in {"get", "get_mut"} => (last.ret = None <=> empty(Self))
  /\ last.op = "empty" =>
       (last.ret = Some(1) <=> (get(Self) = None /\ get_mut(Self) = None))

\* get_mut() returned None on a container emptied after it held a value
C15_Witness ==
  /\ last.op = "get_mut" /\ last.ret = None
  /\ empty(Self) /\ get(Self) = None
  /\ \E c \in stored : drops[c] = 1

KindSet(events) == {events[i].kind : i \in DOMAIN events}

\* a step that is a call of set: one that ran to its return or to a panic,
\* or one that the misaligned copy ended
SetCalled == last'.op = "set" \/ (last'.op = "fault" /\ last'.arg # NoArg)

\* C16: whether set(value) succeeds depends on the size alone: a call of set
\* returns with the value as the occupant, its tag written and its bytes in
\* the store, if and only if size_of(T) <= SIZE, whatever T's alignment (a
\* type aligned to more than the container's 16 included).
C16_AcceptanceBySizeOnly ==
  [][SetCalled =>
       ((/\ last'.op = "set" /\ ~last'.panic /\ status' = "live"
         /\ vtable' = vtable_of(last'.arg.type)
         /\ Read(store', size_of(last'.arg.type)) = last'.arg.bytes)
        <=> size_of(last'.arg.type) <= SIZE)
    ]_vars

\* what a caller can see of a call of set
Seen(r) ==
  [panic |-> r.panic, events |-> r.events, drops |-> r.drops, tag |-> r.self.vtable,
   foo |-> IF get(r.self) = None THEN None ELSE Some(foo(get(r.self)[1]))]

\* C17: a set rejected for its size on an occupied container has first run
\* the cleanup of the occupant, exactly once, and leaves the tag 0; the
\* container then answers clear, get and every set as a new one does, and no
\* later call runs the cleanup of a value that is not the occupant again.
C17_RejectedSetEvictsOccupant ==
  [][/\ (last'.op = "set" /\ "assert" \in KindSet(last'.events) /\ vtable # 0) =>
         /\ Kinds(last'.events) = <<"drop", "assert", "unwind">>
         /\ last'.events[1] = Event("drop", vtable, OccupantCell)
         /\ OccupantCell # 0 => drops[OccupantCell] = 0 /\ drops'[OccupantCell] = 1
         /\ held # NoArg /\ held' = NoArg
         /\ vtable' = 0 /\ empty(Self') /\ get(Self') = None /\ get_mut(Self') = None
         /\ clear(Self', drops') = Untouched(Self', drops')
         /\ \A content \in Contents' :
              Seen(set(Self', drops', content)) = Seen(set(new(SIZE), drops', content))
     /\ \A c \in Cells :
         (drops[c] >= 1 /\ ~(vtable # 0 /\ OccupantCell = c)) => drops'[c] = drops[c]
    ]_vars

\* a Droppable was evicted by a rejected set: cleaned up once, container empty
C17_Witness ==
  /\ last.op = "set" /\ last.panic
  /\ Kinds(last.events) = <<"drop", "assert", "unwind">>
  /\ last.events[1].vtable = vtable_of("Droppable")
  /\ drops[last.events[1].cell] = 1
  /\ vtable = 0 /\ held = NoArg /\ status = "live"

\* C18: the value of a set rejected for its size has its cleanup run exactly
\* once, by the unwinding of that call, is never the container's, and no
\* drop_in_place of the container is ever run on a value set did not store.
C18_RejectedValueDroppedOnce ==
  [][/\ (last'.op = "set" /\ "assert" \in KindSet(last'.events) /\ last'.arg.cell # 0) =>
         LET c  == last'.arg.cell
             ev == last'.events
         IN  /\ drops[c] = 0 /\ drops'[c] = 1
             /\ ev[Len(ev)] = Event("unwind", vtable_of(last'.arg.type), c)
             /\ Cardinality({i \in DOMAIN ev : ev[i].cell = c}) = 1
             /\ c \notin stored' /\ held'.cell # c
     /\ \A c \in Cells \ stored' :
         /\ drops'[c] <= 1
         /\ \A i \in DOMAIN last'.events :
              last'.events[i].cell = c => last'.events[i].kind = "unwind"
    ]_vars

\* a Droppable too large for the container was rejected and cleaned up once
C18_Witness ==
  /\ last.op = "set" /\ last.panic /\ "assert" \in KindSet(last.events)
  /\ last.arg.type = "Droppable" /\ size_of("Droppable") > SIZE
  /\ drops[last.arg.cell] = 1 /\ last.arg.cell \notin stored
  /\ status = "live"

====
